---- MODULE Spec2Model ----
(***************************************************************************)
(* Train-network simulation engine of app/services/other/simulation.       *)
(*                                                                         *)
(* The persisted store (SQLite through one SQLAlchemy session per request) *)
(* is the state: the SimulationState singleton, the trains, the passengers *)
(* and the routes.  Simulated time is counted in whole minutes.  Every     *)
(* engine operation is one action; inside step_simulation the session's    *)
(* pending changes (w) are kept apart from what db.commit() has already    *)
(* made durable (c), because board_passenger and deboard_passenger commit  *)
(* in the middle of a step and db.rollback() only undoes what is pending.  *)
(*                                                                         *)
(* tracks is the tracks table, which no engine operation reads or writes.  *)
(* response is what the last call returned or raised.  torn is a history   *)
(* variable: the store holds part of the effects of a step that raised.    *)
(***************************************************************************)
EXTENDS Integers, Sequences, FiniteSets, TLC

VARIABLES sim, trains, passengers, routes, tracks, response, requests,
          connection, torn

vars == <<sim, trains, passengers, routes, tracks, response, requests,
          connection, torn>>

-----------------------------------------------------------------------------
(* Bounds of the model *)

MaxTime == 2          \* simulated and wall-clock minutes range over 0..MaxTime
NumPassengers == 2    \* passengers 1..NumPassengers, in creation order
NumRequests == 2      \* step requests that may be in flight at the server

NULL == -1            \* None / SQL NULL of a nullable id or datetime column

StationIds == {1, 2}
TrainIds == {1, 2}
PassengerIds == 1..NumPassengers
RequestIds == 1..NumRequests
Times == 0..MaxTime
\* minutes: int = 60 is not validated by the router: negative and zero included
Durations == {0 - 1, 0, 1}
\* passenger_capacity of the fleet in the initial store
Capacities == {1, 2}
TimeScales == {60}
\* The wall clock (datetime.utcnow()) is the origin of the time axis: a
\* simulation is initialised at it and reset_simulation returns to it.
StartTimes == {0}
WallClock == {0}

-----------------------------------------------------------------------------
(* Route.waypoints: JSON list of {station_id, planned_arrival_time}.  The  *)
(* planned arrival time is stored as text (or null).                        *)

NoText == [kind |-> "none", t |-> NULL]
BadText == [kind |-> "bad", t |-> NULL]
isoformat(t) == [kind |-> "iso", t |-> t]

\* datetime.fromisoformat: the parsed time, or ValueError for unparsable text
fromisoformat(text) ==
    IF text.kind = "iso" THEN [raised |-> FALSE, t |-> text.t]
    ELSE [raised |-> TRUE, t |-> NULL]

Waypoint(station, text) == [station_id |-> station, planned_arrival_time |-> text]

\* The route every train rides unless said otherwise: station 1 at minute 1,
\* station 2 at minute 2
MainRoute == <<Waypoint(1, isoformat(1)), Waypoint(2, isoformat(2))>>

\* The routes a train may be assigned in the initial store: one per shape
\* of waypoint data that _update_train_state distinguishes (well-formed, the
\* reverse direction, no planned time, unparsable text, no station, empty).
RouteCatalog ==
    { MainRoute,
      <<Waypoint(2, isoformat(1)), Waypoint(1, isoformat(1))>>,
      <<Waypoint(1, isoformat(1)), Waypoint(2, NoText)>>,
      <<Waypoint(1, BadText)>>,
      <<Waypoint(NULL, isoformat(1)), Waypoint(2, isoformat(2))>>,
      <<>> }

-----------------------------------------------------------------------------
(* Rows *)

\* rows counts the rows of the simulation_state table; the other fields are
\* those of the row db.query(SimulationState).first() returns
NoSim == [exists |-> FALSE, rows |-> 0, current_simulated_datetime |-> 0,
          time_scale |-> 0, is_running |-> FALSE]

\* Train(...) as TrainService.create_train stores it, column defaults applied
NewTrain(route_id, capacity, departure) ==
    [route_id |-> route_id,
     passenger_capacity |-> capacity,
     scheduled_departure |-> departure,
     current_station_id |-> NULL,
     current_track_id |-> NULL,
     current_passenger_count |-> 0,
     current_cargo_kg |-> 0,
     actual_departure |-> NULL,
     actual_arrival |-> NULL,
     delay_minutes |-> 0,
     status |-> "scheduled",
     current_location_status |-> "at_station",
     current_waypoint_index |-> 0]

\* Passenger(...) as PassengerService.create_passenger stores it
NewPassenger(origin, destination, current) ==
    [origin_station_id |-> origin,
     destination_station_id |-> destination,
     current_station_id |-> current,
     boarded_train_id |-> NULL,
     status |-> "waiting",
     boarding_time |-> NULL,
     arrival_time |-> NULL]

Db == [sim |-> sim, trains |-> trains, passengers |-> passengers]

NoResponse == [op |-> "none", outcome |-> "ok", body |-> <<>>]

Reply(op, outcome) == [op |-> op, outcome |-> outcome, body |-> <<>>]

-----------------------------------------------------------------------------
(* Helpers *)

RECURSIVE SortedSeq(_)
\* rows of a query, in primary-key order
SortedSeq(S) ==
    IF S = {} THEN <<>>
    ELSE LET m == CHOOSE x \in S : \A y \in S : x <= y
         IN  <<m>> \o SortedSeq(S \ {m})

Min(a, b) == IF a <= b THEN a ELSE b
Max(a, b) == IF a >= b THEN a ELSE b

\* Python's seq[:n]: a negative n counts from the end
SliceTo(seq, n) ==
    IF n >= 0 THEN SubSeq(seq, 1, Min(n, Len(seq)))
    ELSE SubSeq(seq, 1, Max(0, Len(seq) + n))

-----------------------------------------------------------------------------
(* The session of one request: c is what is committed in the store, w is   *)
(* the session's view (committed rows plus pending changes), raised tells  *)
(* that an exception is propagating.                                       *)

Session(db) == [c |-> db, w |-> db, raised |-> FALSE]

\* db.commit(): every pending change becomes durable
commit(st) == [st EXCEPT !.c = st.w]

\* db.rollback(): pending changes are dropped; what was committed stays
rollback(st) == [st EXCEPT !.w = st.c]

Raise(st) == [st EXCEPT !.raised = TRUE]

-----------------------------------------------------------------------------
(* PassengerService *)

\* the waiting query with its rows in descending primary-key order
get_waiting_passengers_newest_first(db, station_id) ==
    LET rows == SelectSeq(SortedSeq(PassengerIds),
                          LAMBDA p : /\ db.passengers[p].current_station_id = station_id
                                     /\ db.passengers[p].status = "waiting")
    IN  [i \in 1..Len(rows) |-> rows[Len(rows) + 1 - i]]

\* the filter runs in the store (autoflush is off), in primary-key order
get_waiting_passengers_at_station(db, station_id) ==
    SelectSeq(SortedSeq(PassengerIds),
              LAMBDA p : /\ db.passengers[p].current_station_id = station_id
                         /\ db.passengers[p].status = "waiting")

get_passengers_on_train(db, train_id) ==
    SelectSeq(SortedSeq(PassengerIds),
              LAMBDA p : /\ db.passengers[p].boarded_train_id = train_id
                         /\ db.passengers[p].status = "boarded")

\* the getting-off query without its boarded_train_id filter
get_passengers_getting_off_any_train(db, train_id, station_id) ==
    SelectSeq(SortedSeq(PassengerIds),
              LAMBDA p : /\ db.passengers[p].destination_station_id = station_id
                         /\ db.passengers[p].status = "boarded")

\* the getting-off query without its destination filter
get_passengers_getting_off_at_every_stop(db, train_id, station_id) ==
    SelectSeq(SortedSeq(PassengerIds),
              LAMBDA p : /\ db.passengers[p].boarded_train_id = train_id
                         /\ db.passengers[p].status = "boarded")

get_passengers_getting_off_at_station(db, train_id, station_id) ==
    SelectSeq(SortedSeq(PassengerIds),
              LAMBDA p : /\ db.passengers[p].boarded_train_id = train_id
                         /\ db.passengers[p].destination_station_id = station_id
                         /\ db.passengers[p].status = "boarded")

board_passenger(st, passenger_id, train_id, current_time) ==
    IF st.w.passengers[passenger_id].status # "waiting" THEN st
    ELSE commit([st EXCEPT !.w.passengers[passenger_id] =
                    [@ EXCEPT !.boarded_train_id = train_id,
                              !.status = "boarded",
                              !.boarding_time = current_time]])

\* deboard_passenger that forgets to clear boarded_train_id
deboard_passenger_keeps_train(st, passenger_id, station_id, current_time) ==
    IF st.w.passengers[passenger_id].status # "boarded" THEN st
    ELSE commit([st EXCEPT !.w.passengers[passenger_id] =
                    [@ EXCEPT !.current_station_id = station_id,
                              !.status = "arrived",
                              !.arrival_time = current_time]])

deboard_passenger(st, passenger_id, station_id, current_time) ==
    IF st.w.passengers[passenger_id].status # "boarded" THEN st
    ELSE commit([st EXCEPT !.w.passengers[passenger_id] =
                    [@ EXCEPT !.boarded_train_id = NULL,
                              !.current_station_id = station_id,
                              !.status = "arrived",
                              !.arrival_time = current_time]])

-----------------------------------------------------------------------------
(* SimulationEngine: the per-train update *)

RECURSIVE DeboardEach(_, _, _, _, _)
\* for passenger in passengers_to_deboard: deboard, then count -= 1
DeboardEach(st, ps, train_id, station_id, current_datetime) ==
    IF ps = <<>> THEN st
    ELSE LET s1 == deboard_passenger(st, Head(ps), station_id, current_datetime)
             s2 == [s1 EXCEPT !.w.trains[train_id].current_passenger_count = @ - 1]
         IN  DeboardEach(s2, Tail(ps), train_id, station_id, current_datetime)

RECURSIVE BoardEach(_, _, _, _)
\* for passenger in passengers_to_board: board, then count += 1
BoardEach(st, ps, train_id, current_datetime) ==
    IF ps = <<>> THEN st
    ELSE LET s1 == board_passenger(st, Head(ps), train_id, current_datetime)
             s2 == [s1 EXCEPT !.w.trains[train_id].current_passenger_count = @ + 1]
         IN  BoardEach(s2, Tail(ps), train_id, current_datetime)

\* seats offered to waiting passengers at a visit
available_seats(train) == train.passenger_capacity - train.current_passenger_count

\* a passenger exchange that boards before it deboards
_handle_passenger_exchange_board_first(st, train_id, station_id, current_datetime) ==
    LET waiting_passengers == get_waiting_passengers_at_station(st.c, station_id)
        passengers_to_board ==
            SliceTo(waiting_passengers, available_seats(st.w.trains[train_id]))
        s1 == BoardEach(st, passengers_to_board, train_id, current_datetime)
        passengers_to_deboard ==
            get_passengers_getting_off_at_station(st.c, train_id, station_id)
    IN  DeboardEach(s1, passengers_to_deboard, train_id, station_id,
                    current_datetime)

_handle_passenger_exchange(st, train_id, station_id, current_datetime) ==
    LET passengers_to_deboard ==
            get_passengers_getting_off_at_station(st.c, train_id, station_id)
        s1 == DeboardEach(st, passengers_to_deboard, train_id, station_id,
                          current_datetime)
        waiting_passengers == get_waiting_passengers_at_station(s1.c, station_id)
        passengers_to_board ==
            SliceTo(waiting_passengers, available_seats(s1.w.trains[train_id]))
    IN  BoardEach(s1, passengers_to_board, train_id, current_datetime)

\* a delay that is added to the delay the train already has
delay_minutes_accumulated(train, planned_arrival, current_datetime) ==
    train.delay_minutes
      + (IF current_datetime >= planned_arrival
         THEN current_datetime - planned_arrival ELSE 0)

\* max(0, int(elapsed - planned_duration)), both measured from actual_departure
delay_minutes(train, planned_arrival, current_datetime) ==
    Max(0, (current_datetime - train.actual_departure)
           - (planned_arrival - train.actual_departure))

\* an arrival branch that completes the journey at whatever waypoint is reached
Arrive_completes_anywhere(st, train_id, waypoints, planned_arrival, current_datetime) ==
    LET train == st.w.trains[train_id]
        station_id == waypoints[train.current_waypoint_index + 1].station_id
        s1 == [st EXCEPT !.w.trains[train_id] =
                 [@ EXCEPT !.current_station_id = station_id,
                           !.current_track_id = NULL,
                           !.current_location_status = "at_station"]]
        s2 == _handle_passenger_exchange(s1, train_id, station_id, current_datetime)
    IN  [s2 EXCEPT !.w.trains[train_id] =
            [@ EXCEPT !.status = "completed",
                      !.actual_arrival = current_datetime]]

\* an arrival branch that moves the index on at the last waypoint too
Arrive_moves_on_at_the_end(st, train_id, waypoints, planned_arrival, current_datetime) ==
    LET train == st.w.trains[train_id]
        index == train.current_waypoint_index
        station_id == waypoints[index + 1].station_id
        s1 == [st EXCEPT !.w.trains[train_id] =
                 [@ EXCEPT !.current_station_id = station_id,
                           !.current_track_id = NULL,
                           !.current_location_status = "at_station",
                           !.delay_minutes =
                               IF train.actual_departure # NULL
                               THEN delay_minutes(train, planned_arrival,
                                                  current_datetime)
                               ELSE @]]
        s2 == _handle_passenger_exchange(s1, train_id, station_id, current_datetime)
    IN  IF index = Len(waypoints) - 1
        THEN [s2 EXCEPT !.w.trains[train_id] =
                 [@ EXCEPT !.status = "completed",
                           !.actual_arrival = current_datetime,
                           !.current_waypoint_index = @ + 1]]
        ELSE [s2 EXCEPT !.w.trains[train_id].current_waypoint_index = @ + 1]

\* an arrival branch that marks a train delayed when it arrives late at a
\* waypoint that is not the last
Arrive_marks_delayed(st, train_id, waypoints, planned_arrival, current_datetime) ==
    LET train == st.w.trains[train_id]
        index == train.current_waypoint_index
        station_id == waypoints[index + 1].station_id
        s1 == [st EXCEPT !.w.trains[train_id] =
                 [@ EXCEPT !.current_station_id = station_id,
                           !.current_track_id = NULL,
                           !.current_location_status = "at_station",
                           !.delay_minutes =
                               IF train.actual_departure # NULL
                               THEN delay_minutes(train, planned_arrival,
                                                  current_datetime)
                               ELSE @]]
        s2 == _handle_passenger_exchange(s1, train_id, station_id, current_datetime)
    IN  IF index = Len(waypoints) - 1
        THEN [s2 EXCEPT !.w.trains[train_id] =
                 [@ EXCEPT !.status = "completed",
                           !.actual_arrival = current_datetime]]
        ELSE [s2 EXCEPT !.w.trains[train_id] =
                 [@ EXCEPT !.current_waypoint_index = @ + 1,
                           !.status = IF s2.w.trains[train_id].delay_minutes > 0
                                      THEN "delayed" ELSE @]]

\* the arrival branch: position, delay, passenger exchange, then completion or
\* the next waypoint
Arrive(st, train_id, waypoints, planned_arrival, current_datetime) ==
    LET train == st.w.trains[train_id]
        index == train.current_waypoint_index
        station_id == waypoints[index + 1].station_id
        s1 == [st EXCEPT !.w.trains[train_id] =
                 [@ EXCEPT !.current_station_id = station_id,
                           !.current_track_id = NULL,
                           !.current_location_status = "at_station",
                           !.delay_minutes =
                               IF train.actual_departure # NULL
                               THEN delay_minutes(train, planned_arrival,
                                                  current_datetime)
                               ELSE @]]
        s2 == _handle_passenger_exchange(s1, train_id, station_id, current_datetime)
    IN  IF index = Len(waypoints) - 1
        THEN [s2 EXCEPT !.w.trains[train_id] =
                 [@ EXCEPT !.status = "completed",
                           !.actual_arrival = current_datetime]]
        ELSE [s2 EXCEPT !.w.trains[train_id].current_waypoint_index = @ + 1]

\* a per-train update that also exchanges passengers when the train departs
_update_train_state_boards_at_departure(st, train_id, current_datetime) ==
    LET train == st.w.trains[train_id]
        waypoints == routes[train.route_id]
    IN  IF train.status \in {"completed", "cancelled"} THEN st
        ELSE IF waypoints = <<>> THEN st
        ELSE IF train.status = "scheduled" /\ train.scheduled_departure # NULL
        THEN IF current_datetime >= train.scheduled_departure
             THEN _handle_passenger_exchange(
                      [st EXCEPT !.w.trains[train_id] =
                          [@ EXCEPT !.status = "running",
                                    !.actual_departure = current_datetime,
                                    !.current_station_id = waypoints[1].station_id,
                                    !.current_waypoint_index = 0]],
                      train_id, waypoints[1].station_id, current_datetime)
             ELSE st
        ELSE IF train.status \in {"running", "delayed"}
                /\ train.current_waypoint_index < Len(waypoints)
        THEN LET text == waypoints[train.current_waypoint_index + 1].planned_arrival_time
                 parsed == IF text.kind = "none"
                           THEN [raised |-> FALSE, t |-> NULL]
                           ELSE fromisoformat(text)
             IN  IF parsed.raised THEN Raise(st)
                 ELSE IF parsed.t # NULL /\ current_datetime >= parsed.t
                 THEN Arrive(st, train_id, waypoints, parsed.t, current_datetime)
                 ELSE [st EXCEPT !.w.trains[train_id].current_location_status =
                                     "between_stations"]
        ELSE st

\* _update_train_state with the arrival test in an if of its own after the
\* departure, not in the elif: a train can depart and call in one update
_update_train_state_falls_through(st, train_id, current_datetime) ==
    LET train == st.w.trains[train_id]
        waypoints == routes[train.route_id]
        departs == /\ train.status = "scheduled"
                   /\ train.scheduled_departure # NULL
                   /\ current_datetime >= train.scheduled_departure
        s1 == IF departs
              THEN [st EXCEPT !.w.trains[train_id] =
                       [@ EXCEPT !.status = "running",
                                 !.actual_departure = current_datetime,
                                 !.current_station_id = waypoints[1].station_id,
                                 !.current_waypoint_index = 0]]
              ELSE st
        moving == s1.w.trains[train_id]
    IN  IF train.status \in {"completed", "cancelled"} THEN st
        ELSE IF waypoints = <<>> THEN st
        ELSE IF moving.status \in {"running", "delayed"}
                /\ moving.current_waypoint_index < Len(waypoints)
        THEN LET text == waypoints[moving.current_waypoint_index + 1].planned_arrival_time
                 parsed == IF text.kind = "none"
                           THEN [raised |-> FALSE, t |-> NULL]
                           ELSE fromisoformat(text)
             IN  IF parsed.raised THEN Raise(s1)
                 ELSE IF parsed.t # NULL /\ current_datetime >= parsed.t
                 THEN Arrive(s1, train_id, waypoints, parsed.t, current_datetime)
                 ELSE [s1 EXCEPT !.w.trains[train_id].current_location_status =
                                     "between_stations"]
        ELSE s1

_update_train_state(st, train_id, current_datetime) ==
    LET train == st.w.trains[train_id]
        waypoints == routes[train.route_id]
    IN  IF train.status \in {"completed", "cancelled"} THEN st
        ELSE IF waypoints = <<>> THEN st
        ELSE IF train.status = "scheduled" /\ train.scheduled_departure # NULL
        THEN IF current_datetime >= train.scheduled_departure
             THEN [st EXCEPT !.w.trains[train_id] =
                      [@ EXCEPT !.status = "running",
                                !.actual_departure = current_datetime,
                                !.current_station_id = waypoints[1].station_id,
                                !.current_waypoint_index = 0]]
             ELSE st
        ELSE IF train.status \in {"running", "delayed"}
                /\ train.current_waypoint_index < Len(waypoints)
        THEN LET text == waypoints[train.current_waypoint_index + 1].planned_arrival_time
                 parsed == IF text.kind = "none"
                           THEN [raised |-> FALSE, t |-> NULL]
                           ELSE fromisoformat(text)
             IN  IF parsed.raised THEN Raise(st)
                 ELSE IF parsed.t # NULL /\ current_datetime >= parsed.t
                 THEN Arrive(st, train_id, waypoints, parsed.t, current_datetime)
                 ELSE [st EXCEPT !.w.trains[train_id].current_location_status =
                                     "between_stations"]
        ELSE st

RECURSIVE UpdateTrains(_, _, _)
\* for train in trains: _update_train_state(...); an exception ends the loop
UpdateTrains(st, ts, current_datetime) ==
    IF ts = <<>> \/ st.raised THEN st
    ELSE UpdateTrains(_update_train_state(st, Head(ts), current_datetime),
                      Tail(ts), current_datetime)

ActiveStatuses == {"scheduled", "running", "delayed"}

\* the active trains in descending primary-key order
ActiveTrains_newest_first(db) ==
    LET rows == SelectSeq(SortedSeq(TrainIds),
                          LAMBDA t : db.trains[t].status \in ActiveStatuses)
    IN  [i \in 1..Len(rows) |-> rows[Len(rows) + 1 - i]]

\* db.query(Train).filter(Train.status.in_([...])).all(): a scan of the
\* table, rows in primary-key order
ActiveTrains(db) ==
    SelectSeq(SortedSeq(TrainIds), LAMBDA t : db.trains[t].status \in ActiveStatuses)

\* the session of step_simulation when it reaches db.commit() or the except
\* clause: the clock advanced and the active trains updated in turn
StepSession(db, minutes_to_advance) ==
    LET now == db.sim.current_simulated_datetime + minutes_to_advance
        s0 == [Session(db) EXCEPT !.w.sim.current_simulated_datetime = now]
    IN  UpdateTrains(s0, ActiveTrains(db), now)

\* step_simulation from the session before db.commit() to the store it leaves
RunStep(db, minutes_to_advance) ==
    LET s1 == StepSession(db, minutes_to_advance)
    IN  IF s1.raised
        THEN [db |-> rollback(s1).w, outcome |-> "error"]
        ELSE [db |-> commit(s1).c, outcome |-> "ok"]

\* step_simulation that creates the SimulationState it does not find
StepResult_creates_state(db, minutes_to_advance) ==
    IF ~db.sim.exists
    THEN [db |-> [db EXCEPT !.sim = [exists |-> TRUE,
                                     rows |-> 1,
                                     current_simulated_datetime |-> 0,
                                     time_scale |-> 60,
                                     is_running |-> FALSE]],
          outcome |-> "ok"]
    ELSE RunStep(db, minutes_to_advance)

\* step_simulation that advances nothing while the simulation is paused
StepResult_only_when_running(db, minutes_to_advance) ==
    IF ~db.sim.exists THEN [db |-> db, outcome |-> "error"]
    ELSE IF ~db.sim.is_running THEN [db |-> db, outcome |-> "ok"]
    ELSE RunStep(db, minutes_to_advance)

\* the whole of step_simulation on the store db
StepResult(db, minutes_to_advance) ==
    IF ~db.sim.exists THEN [db |-> db, outcome |-> "error"]
    ELSE RunStep(db, minutes_to_advance)

-----------------------------------------------------------------------------
(* Status projection *)

simulation_status(db) ==
    [current_simulated_datetime |-> db.sim.current_simulated_datetime,
     time_scale |-> db.sim.time_scale,
     is_running |-> db.sim.is_running]

trains_status(db) ==
    [t \in TrainIds |->
        [status |-> db.trains[t].status,
         current_station_id |-> db.trains[t].current_station_id,
         current_location_status |-> db.trains[t].current_location_status,
         actual_departure |-> db.trains[t].actual_departure,
         actual_arrival |-> db.trains[t].actual_arrival,
         delay_minutes |-> db.trains[t].delay_minutes,
         current_passenger_count |-> db.trains[t].current_passenger_count,
         waypoint_index |-> db.trains[t].current_waypoint_index]]

stations_status(db) ==
    [s \in StationIds |->
        [current_trains |->
             SelectSeq(SortedSeq(TrainIds),
                       LAMBDA t : db.trains[t].current_station_id = s),
         passengers_on_platforms |-> get_waiting_passengers_at_station(db, s)]]

-----------------------------------------------------------------------------
(* Initial store: no SimulationState yet; trains and passengers as their   *)
(* create operations leave them.  Train t rides route t.                   *)

Departures == {1}

\* at most one train rides a route other than the main one
RoutePlans ==
    { plan \in [TrainIds -> RouteCatalog] :
          \E t \in TrainIds : \A u \in TrainIds \ {t} : plan[u] = MainRoute }

\* stations, routes, trains and passengers as their create operations leave them
InitialStore ==
    /\ routes \in RoutePlans
    /\ tracks = <<>>
    /\ \E capacity \in Capacities, departure \in Departures :
          trains = [t \in TrainIds |-> NewTrain(t, capacity, departure)]
    /\ \E origin \in [PassengerIds -> StationIds],
          destination \in [PassengerIds -> StationIds] :
          /\ \A p \in PassengerIds : origin[p] # destination[p]
          \* generate_passengers_for_simulation creates them station by station
          /\ \A p, q \in PassengerIds : p < q => origin[p] <= origin[q]
          /\ passengers = [p \in PassengerIds |->
                              NewPassenger(origin[p], destination[p], origin[p])]

NoRequest == [pc |-> "idle", minutes |-> 0, outcome |-> "none"]

\* nothing written and not yet committed on the engine's connection
NoTransaction == [open |-> FALSE, db |-> <<>>]

Init ==
    /\ sim = NoSim
    /\ InitialStore
    /\ response = NoResponse
    /\ requests = [r \in RequestIds |-> NoRequest]
    /\ connection = NoTransaction
    /\ torn = FALSE

-----------------------------------------------------------------------------
(* Operations of SimulationEngine, one action each *)

\* init_simulation that adds its row without deleting the one it finds
init_simulation_keeps_prior(start_datetime, time_scale) ==
    /\ sim' = [exists |-> TRUE,
               rows |-> sim.rows + 1,
               current_simulated_datetime |->
                   IF sim.exists THEN sim.current_simulated_datetime
                   ELSE start_datetime,
               time_scale |-> IF sim.exists THEN sim.time_scale ELSE time_scale,
               is_running |-> IF sim.exists THEN sim.is_running ELSE FALSE]
    /\ response' = Reply("init_simulation", "ok")
    /\ UNCHANGED <<trains, passengers, routes, tracks, requests, connection, torn>>

\* the row found first, if any, is deleted; then the new row is added
init_simulation(start_datetime, time_scale) ==
    /\ sim' = [exists |-> TRUE,
               rows |-> (IF sim.exists THEN sim.rows - 1 ELSE sim.rows) + 1,
               current_simulated_datetime |-> start_datetime,
               time_scale |-> time_scale,
               is_running |-> FALSE]
    /\ response' = Reply("init_simulation", "ok")
    /\ UNCHANGED <<trains, passengers, routes, tracks, requests, connection, torn>>

start_simulation ==
    /\ IF sim.exists
       THEN /\ sim' = [sim EXCEPT !.is_running = TRUE]
            /\ response' = Reply("start_simulation", "ok")
       ELSE /\ sim' = sim
            /\ response' = Reply("start_simulation", "error")
    /\ UNCHANGED <<trains, passengers, routes, tracks, requests, connection, torn>>

pause_simulation ==
    /\ IF sim.exists
       THEN /\ sim' = [sim EXCEPT !.is_running = FALSE]
            /\ response' = Reply("pause_simulation", "ok")
       ELSE /\ sim' = sim
            /\ response' = Reply("pause_simulation", "error")
    /\ UNCHANGED <<trains, passengers, routes, tracks, requests, connection, torn>>

\* reset_simulation over the trains a step updates only: completed and
\* cancelled trains are left as they are
reset_simulation_active_only(utcnow) ==
    /\ trains' = [t \in TrainIds |->
                    IF trains[t].status \in ActiveStatuses
                    THEN [trains[t] EXCEPT !.status = "scheduled",
                                           !.current_station_id = NULL,
                                           !.current_track_id = NULL,
                                           !.actual_departure = NULL,
                                           !.actual_arrival = NULL,
                                           !.delay_minutes = 0,
                                           !.current_waypoint_index = 0,
                                           !.current_location_status = "at_station",
                                           !.current_passenger_count = 0,
                                           !.current_cargo_kg = 0]
                    ELSE trains[t]]
    /\ sim' = IF sim.exists
              THEN [sim EXCEPT !.is_running = FALSE,
                               !.current_simulated_datetime = utcnow]
              ELSE sim
    /\ response' = Reply("reset_simulation", "ok")
    /\ UNCHANGED <<passengers, routes, tracks, requests, connection, torn>>

\* utcnow is the wall clock at the call
reset_simulation(utcnow) ==
    /\ trains' = [t \in TrainIds |->
                    [trains[t] EXCEPT !.status = "scheduled",
                                      !.current_station_id = NULL,
                                      !.current_track_id = NULL,
                                      !.actual_departure = NULL,
                                      !.actual_arrival = NULL,
                                      !.delay_minutes = 0,
                                      !.current_waypoint_index = 0,
                                      !.current_location_status = "at_station",
                                      !.current_passenger_count = 0,
                                      !.current_cargo_kg = 0]]
    /\ sim' = IF sim.exists
              THEN [sim EXCEPT !.is_running = FALSE,
                               !.current_simulated_datetime = utcnow]
              ELSE sim
    /\ response' = Reply("reset_simulation", "ok")
    /\ UNCHANGED <<passengers, routes, tracks, requests, connection, torn>>

step_simulation(minutes_to_advance) ==
    LET r == StepResult(Db, minutes_to_advance)
    IN  /\ sim.exists =>
               sim.current_simulated_datetime + minutes_to_advance \in Times
        /\ sim' = r.db.sim
        /\ trains' = r.db.trains
        /\ passengers' = r.db.passengers
        /\ response' = Reply("step_simulation", r.outcome)
        /\ torn' = (r.outcome = "error" /\ (torn \/ r.db # Db))
        /\ UNCHANGED <<routes, tracks, requests, connection>>

\* get_simulation_status that creates the SimulationState it does not find
get_simulation_status_creates_state ==
    /\ sim' = IF sim.exists THEN sim
              ELSE [exists |-> TRUE, rows |-> 1, current_simulated_datetime |-> 0,
                    time_scale |-> 60, is_running |-> FALSE]
    /\ response' = [op |-> "get_simulation_status", outcome |-> "ok",
                    body |-> <<simulation_status([Db EXCEPT !.sim = sim'])>>]
    /\ UNCHANGED <<trains, passengers, routes, tracks, requests, connection, torn>>

get_simulation_status ==
    /\ response' = IF sim.exists
                   THEN [op |-> "get_simulation_status", outcome |-> "ok",
                         body |-> <<simulation_status(Db)>>]
                   ELSE Reply("get_simulation_status", "none")
    /\ UNCHANGED <<sim, trains, passengers, routes, tracks, requests, connection, torn>>

get_trains_status ==
    /\ response' = [op |-> "get_trains_status", outcome |-> "ok",
                    body |-> <<trains_status(Db)>>]
    /\ UNCHANGED <<sim, trains, passengers, routes, tracks, requests, connection, torn>>

get_stations_status ==
    /\ response' = [op |-> "get_stations_status", outcome |-> "ok",
                    body |-> <<stations_status(Db)>>]
    /\ UNCHANGED <<sim, trains, passengers, routes, tracks, requests, connection, torn>>

Next ==
    \/ \E start_datetime \in StartTimes, time_scale \in TimeScales :
           init_simulation(start_datetime, time_scale)
    \/ start_simulation
    \/ pause_simulation
    \/ \E utcnow \in WallClock : reset_simulation(utcnow)
    \/ \E minutes \in Durations : step_simulation(minutes)

Spec == Init /\ [][Next]_vars

\* the engine together with the status queries
NextStatus ==
    \/ \E start_datetime \in StartTimes, time_scale \in TimeScales :
          init_simulation(start_datetime, time_scale)
    \/ start_simulation
    \/ pause_simulation
    \/ \E minutes_to_advance \in Durations : step_simulation(minutes_to_advance)
    \/ get_simulation_status
    \/ get_trains_status
    \/ get_stations_status

SpecStatus == Init /\ [][NextStatus]_vars

\* the engine stepped and reset, the running flag left alone
NextReset ==
    \/ \E start_datetime \in StartTimes, time_scale \in TimeScales :
          init_simulation(start_datetime, time_scale)
    \/ \E utcnow \in WallClock : reset_simulation(utcnow)
    \/ \E minutes_to_advance \in Durations : step_simulation(minutes_to_advance)

SpecReset == Init /\ [][NextReset]_vars

-----------------------------------------------------------------------------
(* TrainService.update_train through PUT/PATCH /train/{train_id}: every    *)
(* field the request names is overwritten, none is validated.              *)

TrainPatches == { [status |-> "cancelled"] }

update_train(train_id, patch) ==
    /\ trains' = [trains EXCEPT ![train_id] =
                    [f \in DOMAIN trains[train_id] |->
                        IF f \in DOMAIN patch THEN patch[f] ELSE trains[train_id][f]]]
    /\ response' = Reply("update_train", "ok")
    /\ UNCHANGED <<sim, passengers, routes, tracks, requests, connection, torn>>

NextCrud ==
    \/ \E start_datetime \in StartTimes, time_scale \in TimeScales :
          init_simulation(start_datetime, time_scale)
    \/ \E minutes_to_advance \in Durations : step_simulation(minutes_to_advance)
    \/ \E train_id \in TrainIds, patch \in TrainPatches : update_train(train_id, patch)

SpecCrud == Init /\ [][NextCrud]_vars

\* a dispatcher marks trains delayed while the engine steps
StatusPatches == { [status |-> "delayed"] }

NextDispatch ==
    \/ \E start_datetime \in StartTimes, time_scale \in TimeScales :
          init_simulation(start_datetime, time_scale)
    \/ \E minutes_to_advance \in Durations : step_simulation(minutes_to_advance)
    \/ \E train_id \in TrainIds, patch \in StatusPatches : update_train(train_id, patch)

SpecDispatch == Init /\ [][NextDispatch]_vars

\* a client overwrites current_passenger_count with more than any train seats
CountPatches == { [current_passenger_count |-> 3] }

NextOverfill ==
    \/ \E start_datetime \in StartTimes, time_scale \in TimeScales :
          init_simulation(start_datetime, time_scale)
    \/ \E minutes_to_advance \in Durations : step_simulation(minutes_to_advance)
    \/ \E train_id \in TrainIds, patch \in CountPatches : update_train(train_id, patch)

SpecOverfill == Init /\ [][NextOverfill]_vars

-----------------------------------------------------------------------------
(* The request layer.  POST /game/step is an async def handler whose body  *)
(* calls the engine without awaiting anything, so the event loop runs one  *)
(* handler body at a time.  Its session comes from get_db_session, a plain *)
(* generator: the finally clause (db.close()) is run for the handler by a  *)
(* worker thread once the handler has returned, while the event loop is    *)
(* free to run the next handler.  The engine is built on StaticPool with   *)
(* check_same_thread False: every session, on every thread, talks to the   *)
(* one DBAPI connection, and a transaction open on it belongs to whoever   *)
(* uses the connection next.                                               *)

\* the handler whose body the event loop is executing
InHandler == {r \in RequestIds : requests[r].pc = "flushed"}

\* the store after the application's startup: init_simulation at the wall
\* clock, then start_simulation
InitServer ==
    /\ sim = [exists |-> TRUE, rows |-> 1, current_simulated_datetime |-> 0,
              time_scale |-> 60, is_running |-> TRUE]
    /\ InitialStore
    /\ response = NoResponse
    /\ requests = [r \in RequestIds |-> NoRequest]
    /\ connection = NoTransaction
    /\ torn = FALSE

\* a client sends POST /game/step?minutes=...
InvokeStep(r, minutes) ==
    /\ requests[r].pc = "idle"
    /\ requests' = [requests EXCEPT ![r].pc = "pending", ![r].minutes = minutes]
    /\ UNCHANGED <<sim, trains, passengers, routes, tracks, response, connection, torn>>

\* the handler body up to the flush inside the closing db.commit(): what the
\* passenger exchanges committed is stored, the rest is written on the
\* connection and waits for COMMIT; an exception ends the body in
\* db.rollback()
FlushStep(r) ==
    LET s1 == StepSession(Db, requests[r].minutes)
    IN  /\ requests[r].pc = "pending"
        /\ InHandler = {}
        /\ sim.current_simulated_datetime + requests[r].minutes \in Times
        /\ sim' = s1.c.sim
        /\ trains' = s1.c.trains
        /\ passengers' = s1.c.passengers
        /\ IF s1.raised
           THEN /\ connection' = NoTransaction
                /\ response' = Reply("step_simulation", "error")
                /\ torn' = (torn \/ s1.c # Db)
                /\ requests' = [requests EXCEPT ![r].pc = "closing",
                                                ![r].outcome = "error"]
           ELSE /\ connection' = [open |-> TRUE, db |-> s1.w]
                /\ requests' = [requests EXCEPT ![r].pc = "flushed"]
                /\ UNCHANGED <<response, torn>>
        /\ UNCHANGED <<routes, tracks>>

\* COMMIT on the connection, db.refresh(sim_state), and the handler's return
CommitStep(r) ==
    /\ requests[r].pc = "flushed"
    /\ IF connection.open
       THEN /\ sim' = connection.db.sim
            /\ trains' = connection.db.trains
            /\ passengers' = connection.db.passengers
       ELSE UNCHANGED <<sim, trains, passengers>>
    /\ connection' = NoTransaction
    /\ response' = Reply("step_simulation", "ok")
    /\ torn' = FALSE
    /\ requests' = [requests EXCEPT ![r].pc = "closing", ![r].outcome = "ok"]
    /\ UNCHANGED <<routes, tracks>>

\* get_db_session's finally clause on the worker thread: db.close() rolls
\* back on the connection the session was given
CloseSession(r) ==
    /\ requests[r].pc = "closing"
    /\ connection' = NoTransaction
    /\ requests' = [requests EXCEPT ![r].pc = "closed"]
    /\ UNCHANGED <<sim, trains, passengers, routes, tracks, response, torn>>

NextServer ==
    \/ \E r \in RequestIds, minutes \in Durations : InvokeStep(r, minutes)
    \/ \E r \in RequestIds : FlushStep(r)
    \/ \E r \in RequestIds : CommitStep(r)
    \/ \E r \in RequestIds : CloseSession(r)

SpecServer == InitServer /\ [][NextServer]_vars

-----------------------------------------------------------------------------
(* A mixed fleet: every train rides any route of the catalog and has its   *)
(* own scheduled departure, so that in one step one train may be due to    *)
(* depart, another be on its way and a third be stopped by its waypoint    *)
(* data.                                                                   *)

FleetDepartures == {1, 2}

InitFleet ==
    /\ sim = NoSim
    /\ routes \in [TrainIds -> RouteCatalog]
    /\ tracks = <<>>
    /\ \E capacity \in Capacities, departure \in [TrainIds -> FleetDepartures] :
          trains = [t \in TrainIds |-> NewTrain(t, capacity, departure[t])]
    /\ \E origin \in [PassengerIds -> StationIds],
          destination \in [PassengerIds -> StationIds] :
          /\ \A p \in PassengerIds : origin[p] # destination[p]
          /\ \A p, q \in PassengerIds : p < q => origin[p] <= origin[q]
          /\ passengers = [p \in PassengerIds |->
                              NewPassenger(origin[p], destination[p], origin[p])]
    /\ response = NoResponse
    /\ requests = [r \in RequestIds |-> NoRequest]
    /\ connection = NoTransaction
    /\ torn = FALSE

NextFleet ==
    \/ \E start_datetime \in StartTimes, time_scale \in TimeScales :
          init_simulation(start_datetime, time_scale)
    \/ \E minutes_to_advance \in Durations : step_simulation(minutes_to_advance)

SpecFleet == InitFleet /\ [][NextFleet]_vars

-----------------------------------------------------------------------------
(* The mixed fleet stepped forward only, by one client that sends           *)
(* POST /game/step again whenever its last call has returned, from the      *)
(* store the application's startup leaves (init_simulation,                 *)
(* start_simulation).  The horizon leaves a train time to depart and to     *)
(* call at every waypoint of its route, one call per step.                  *)

PositiveDurations == {1}
LiveTimes == 0..(MaxTime + 2)
LiveClient == 1

InitLive ==
    /\ sim = [exists |-> TRUE, rows |-> 1, current_simulated_datetime |-> 0,
              time_scale |-> 60, is_running |-> TRUE]
    /\ routes \in [TrainIds -> RouteCatalog]
    /\ tracks = <<>>
    /\ \E capacity \in Capacities, departure \in [TrainIds -> FleetDepartures] :
          trains = [t \in TrainIds |-> NewTrain(t, capacity, departure[t])]
    /\ \E origin \in [PassengerIds -> StationIds],
          destination \in [PassengerIds -> StationIds] :
          /\ \A p \in PassengerIds : origin[p] # destination[p]
          /\ \A p, q \in PassengerIds : p < q => origin[p] <= origin[q]
          /\ passengers = [p \in PassengerIds |->
                              NewPassenger(origin[p], destination[p], origin[p])]
    /\ response = NoResponse
    /\ requests = [r \in RequestIds |-> NoRequest]
    /\ connection = NoTransaction
    /\ torn = FALSE

\* the handler runs step_simulation to its return, and the client is free
\* to call again
ServeStep(r) ==
    LET res == StepResult(Db, requests[r].minutes)
    IN  /\ requests[r].pc = "pending"
        /\ sim.current_simulated_datetime + requests[r].minutes \in LiveTimes
        /\ sim' = res.db.sim
        /\ trains' = res.db.trains
        /\ passengers' = res.db.passengers
        /\ response' = Reply("step_simulation", res.outcome)
        /\ torn' = (res.outcome = "error" /\ (torn \/ res.db # Db))
        /\ requests' = [requests EXCEPT ![r] = NoRequest]
        /\ UNCHANGED <<routes, tracks, connection>>

CallLive == \E minutes \in PositiveDurations : InvokeStep(LiveClient, minutes)

ServeLive == ServeStep(LiveClient)

NextLive == CallLive \/ ServeLive

\* a call waits for the handler, within the horizon: ENABLED <<ServeLive>>_vars
\* written as a state predicate (ServeStep always returns the request to idle)
ServePending ==
    /\ requests[LiveClient].pc = "pending"
    /\ sim.current_simulated_datetime + requests[LiveClient].minutes \in LiveTimes

\* the client keeps calling, and the worker thread runs every call it is
\* given: weak fairness of both CallLive and ServeLive
SpecLive ==
    /\ InitLive /\ [][NextLive]_vars
    /\ WF_vars(CallLive)
    /\ ([]<>(~ServePending) \/ []<><<ServeLive>>_vars)

\* the fleet after the startup, stepped by whatever duration a client sends
NextSteps ==
    \E minutes_to_advance \in Durations : step_simulation(minutes_to_advance)

SpecSteps == InitLive /\ [][NextSteps]_vars

\* the fleet run forward after the startup, trains cancelled through
\* PATCH /trains/{id}, and the simulation reset
ForwardDurations == {0, 1}
CancelledTrains == {1}

NextRetire ==
    \/ \E minutes_to_advance \in ForwardDurations :
          step_simulation(minutes_to_advance)
    \/ \E train_id \in CancelledTrains, patch \in TrainPatches :
          update_train(train_id, patch)
    \/ \E utcnow \in WallClock : reset_simulation(utcnow)

\* every train on the main route
InitRetire ==
    /\ InitServer
    /\ routes = [t \in TrainIds |-> MainRoute]

SpecRetire == InitRetire /\ [][NextRetire]_vars


-----------------------------------------------------------------------------
(* Re-initialisation: init_simulation may be called again at any time, with *)
(* another start_datetime and another time_scale, on a store whose trains   *)
(* and passengers the steps so far have moved.                              *)

SetupTimes == {0, 1}
SetupScales == {1, 60}

NextSetup ==
    \/ \E start_datetime \in SetupTimes, time_scale \in SetupScales :
          init_simulation(start_datetime, time_scale)
    \/ start_simulation
    \/ \E minutes_to_advance \in Durations : step_simulation(minutes_to_advance)

SpecSetup == Init /\ [][NextSetup]_vars

-----------------------------------------------------------------------------
(* Creation of passengers.  Here the passengers table starts empty and is   *)
(* the sequence of its rows in creation order; station ids in a request may *)
(* name a station that does not exist.  The connection enforces foreign     *)
(* keys (PRAGMA foreign_keys=ON), so a row that references a missing        *)
(* station makes db.commit() raise IntegrityError.                          *)

NoSuchStation == 3
StationRefs == StationIds \cup {NoSuchStation}

\* rows the passengers table may hold in this specification
MaxCreated == NumPassengers + 1

InitPassengers ==
    /\ sim = NoSim
    /\ routes = [t \in TrainIds |-> MainRoute]
    /\ tracks = <<>>
    /\ trains = [t \in TrainIds |-> NewTrain(t, 1, 1)]
    /\ passengers = <<>>
    /\ response = NoResponse
    /\ requests = [r \in RequestIds |-> NoRequest]
    /\ connection = NoTransaction
    /\ torn = FALSE

\* create_passenger without the origin/destination comparison
create_passenger_same_station_allowed(origin_station_id, destination_station_id, current_station_id) ==
    /\ Len(passengers) < MaxCreated
    /\ IF {origin_station_id, destination_station_id, current_station_id}
             \subseteq StationIds
       THEN /\ passengers' = Append(passengers,
                                    NewPassenger(origin_station_id,
                                                 destination_station_id,
                                                 current_station_id))
            /\ response' = Reply("create_passenger", "ok")
       ELSE /\ passengers' = passengers
            /\ response' = Reply("create_passenger", "error")
    /\ UNCHANGED <<sim, trains, routes, tracks, requests, connection, torn>>

create_passenger(origin_station_id, destination_station_id, current_station_id) ==
    /\ Len(passengers) < MaxCreated
    /\ IF ~({origin_station_id, destination_station_id, current_station_id}
               \subseteq StationIds)
       THEN /\ passengers' = passengers
            /\ response' = Reply("create_passenger", "error")
       ELSE IF origin_station_id = destination_station_id
       THEN /\ passengers' = passengers
            /\ response' = Reply("create_passenger", "error")
       ELSE /\ passengers' = Append(passengers,
                                    NewPassenger(origin_station_id,
                                                 destination_station_id,
                                                 current_station_id))
            /\ response' = Reply("create_passenger", "ok")
    /\ UNCHANGED <<sim, trains, routes, tracks, requests, connection, torn>>

\* all_stations is the set of ids of the Station rows the caller passes;
\* random.choice is any of the candidates
generate_passengers_at_station(station_id, num_passengers, all_stations) ==
    /\ Len(passengers) + num_passengers <= MaxCreated
    /\ IF Cardinality(all_stations) < 2
       THEN /\ passengers' = passengers
            /\ response' = Reply("generate_passengers_at_station", "ok")
       ELSE \E destination \in [1..num_passengers -> all_stations \ {station_id}] :
               IF num_passengers > 0 /\ station_id \notin StationIds
               THEN /\ passengers' = passengers
                    /\ response' = Reply("generate_passengers_at_station", "error")
               ELSE /\ passengers' =
                           passengers \o [i \in 1..num_passengers |->
                                             NewPassenger(station_id, destination[i],
                                                          station_id)]
                    /\ response' = Reply("generate_passengers_at_station", "ok")
    /\ UNCHANGED <<sim, trains, routes, tracks, requests, connection, torn>>

NextPassengers ==
    \/ \E origin_station_id \in StationRefs, destination_station_id \in StationRefs,
          current_station_id \in StationRefs :
          create_passenger(origin_station_id, destination_station_id,
                           current_station_id)
    \/ \E station_id \in StationRefs, num_passengers \in 0..2,
          all_stations \in SUBSET StationIds :
          generate_passengers_at_station(station_id, num_passengers, all_stations)

SpecPassengers == InitPassengers /\ [][NextPassengers]_vars

-----------------------------------------------------------------------------
(* TrackService.  tracks is the tracks table, its rows in creation order    *)
(* (track_id is the position); of the columns only the name, which is       *)
(* unique, and the two station references are kept.  The table declares     *)
(* both references as foreign keys and no other constraint on them.         *)

TrackNames == {"A", "B", "C"}
MaxTracks == 2

NewTrack(name, start_station_id, end_station_id) ==
    [name |-> name,
     start_station_id |-> start_station_id,
     end_station_id |-> end_station_id]

\* what db.commit() checks on a row: unique name, foreign keys
TrackStorable(table, track_id) ==
    /\ \A other \in DOMAIN table :
          other # track_id => table[other].name # table[track_id].name
    /\ table[track_id].start_station_id \in StationIds
    /\ table[track_id].end_station_id \in StationIds

create_track(name, start_station_id, end_station_id) ==
    LET added == Append(tracks, NewTrack(name, start_station_id, end_station_id))
    IN  /\ Len(tracks) < MaxTracks
        /\ IF TrackStorable(added, Len(added))
           THEN /\ tracks' = added
                /\ response' = Reply("create_track", "ok")
           ELSE /\ tracks' = tracks
                /\ response' = Reply("create_track", "error")
        /\ UNCHANGED <<sim, trains, passengers, routes, requests, connection, torn>>

\* the fields a PUT or PATCH /infra/{track_id} request may set
TrackPatches ==
    {[name |-> n] : n \in TrackNames}
      \cup {[start_station_id |-> a] : a \in StationRefs}
      \cup {[end_station_id |-> b] : b \in StationRefs}
      \cup {[start_station_id |-> a, end_station_id |-> b] :
                a \in StationRefs, b \in StationRefs}

update_track(track_id, patch) ==
    /\ IF track_id \notin DOMAIN tracks
       THEN /\ tracks' = tracks
            /\ response' = Reply("update_track", "none")
       ELSE LET updated ==
                    [tracks EXCEPT ![track_id] =
                        [f \in DOMAIN tracks[track_id] |->
                            IF f \in DOMAIN patch THEN patch[f]
                            ELSE tracks[track_id][f]]]
            IN  IF TrackStorable(updated, track_id)
                THEN /\ tracks' = updated
                     /\ response' = Reply("update_track", "ok")
                ELSE /\ tracks' = tracks
                     /\ response' = Reply("update_track", "error")
    /\ UNCHANGED <<sim, trains, passengers, routes, requests, connection, torn>>

NextTracks ==
    \/ \E name \in TrackNames, start_station_id \in StationRefs,
          end_station_id \in StationRefs :
          create_track(name, start_station_id, end_station_id)
    \/ \E track_id \in 1..MaxTracks, patch \in TrackPatches :
          update_track(track_id, patch)

SpecTracks == InitPassengers /\ [][NextTracks]_vars

-----------------------------------------------------------------------------
(* Claims *)

\* C1: in every reachable state every train has
\* 0 <= current_passenger_count <= passenger_capacity.
C1_PassengerCountWithinCapacity ==
    \A t \in TrainIds :
        /\ 0 <= trains[t].current_passenger_count
        /\ trains[t].current_passenger_count <= trains[t].passenger_capacity

\* C2: for every passenger, status = boarded exactly when boarded_train_id
\* is not null.
C2_BoardedIffOnTrain ==
    \A p \in PassengerIds :
        (passengers[p].status = "boarded") <=> (passengers[p].boarded_train_id # NULL)

\* both board_passenger and deboard_passenger have acted
C2_Witness ==
    /\ \E p \in PassengerIds : passengers[p].status = "boarded"
    /\ \E p \in PassengerIds : /\ passengers[p].status = "arrived"
                               /\ passengers[p].boarding_time # NULL

\* C3: a step that fails leaves the stored clock, trains and passengers as
\* they were before the call.
C3_FailedStepChangesNothing ==
    [][(response'.op = "step_simulation" /\ response'.outcome = "error")
          => (sim' = sim /\ trains' = trains /\ passengers' = passengers)]_vars

\* the current waypoint of a running train is malformed: unparsable planned
\* arrival text or no station reference
Malformed(t) ==
    /\ trains[t].status \in {"running", "delayed"}
    /\ trains[t].current_waypoint_index < Len(routes[trains[t].route_id])
    /\ LET wp == routes[trains[t].route_id][trains[t].current_waypoint_index + 1]
       IN  wp.planned_arrival_time.kind = "bad" \/ wp.station_id = NULL

\* the store without the effects on, and of, the trains in skipped: what a
\* step does when those trains are left out of the update loop
StepSkipping(skipped, minutes) ==
    LET now == sim.current_simulated_datetime + minutes
        s0 == [Session(Db) EXCEPT !.w.sim.current_simulated_datetime = now]
        others == SelectSeq(ActiveTrains(Db), LAMBDA t : t \notin skipped)
    IN  commit(UpdateTrains(s0, others, now)).c

\* C4: with a malformed current waypoint on one active train the step still
\* completes, that train is left unchanged and every other train is updated
\* as if the malformed train were absent.
C4_MalformedTrainIsSkipped ==
    [][\A minutes \in Durations :
          (step_simulation(minutes) /\ sim.exists
             /\ \E t \in TrainIds : Malformed(t))
          => LET skipped == {t \in TrainIds : Malformed(t)}
             IN  /\ response'.outcome = "ok"
                 /\ \A t \in skipped : trains'[t] = trains[t]
                 /\ \A t \in TrainIds \ skipped :
                        trains'[t] = StepSkipping(skipped, minutes).trains[t]]_vars

\* C7: no step_simulation call moves current_simulated_datetime backwards.
C7_ClockNonDecreasing ==
    [][response'.op = "step_simulation"
          => sim'.current_simulated_datetime >= sim.current_simulated_datetime]_vars

\* C8: step_simulation(d) on an initialised simulation leaves the clock at
\* its previous value plus d.
C8_ClockAdvancesByDuration ==
    [][\A minutes \in Durations :
          (step_simulation(minutes) /\ sim.exists)
          => sim'.current_simulated_datetime
                 = sim.current_simulated_datetime + minutes]_vars

\* the step requests whose handler has returned or raised
Finished == {r \in RequestIds : requests[r].pc \in {"closing", "closed"}}

\* the store the server started from, rebuilt from the columns no step writes
StartStore ==
    [sim |-> [exists |-> TRUE, rows |-> 1, current_simulated_datetime |-> 0,
              time_scale |-> 60, is_running |-> TRUE],
     trains |-> [t \in TrainIds |->
                    NewTrain(trains[t].route_id, trains[t].passenger_capacity,
                             trains[t].scheduled_departure)],
     passengers |-> [p \in PassengerIds |->
                        NewPassenger(passengers[p].origin_station_id,
                                     passengers[p].destination_station_id,
                                     passengers[p].origin_station_id)]]

\* C5: step calls that are in flight together behave as if executed one
\* after the other: once two calls have returned, the store is the one that
\* running them in sequence, in one of the two orders, produces, and when
\* both succeeded the clock has advanced by both durations.
C5_ConcurrentStepsSerialized ==
    \A a, b \in RequestIds :
        (a # b /\ Finished = {a, b})
        => /\ \/ Db = StepResult(StepResult(StartStore, requests[a].minutes).db,
                                 requests[b].minutes).db
              \/ Db = StepResult(StepResult(StartStore, requests[b].minutes).db,
                                 requests[a].minutes).db
           /\ (requests[a].outcome = "ok" /\ requests[b].outcome = "ok")
              => sim.current_simulated_datetime
                     = requests[a].minutes + requests[b].minutes

QueryOps == {"get_simulation_status", "get_trains_status", "get_stations_status"}

\* C6: a status query never observes a partially applied step: what it reads
\* is the store before a step or the store after a whole step.
C6_QueriesSeeWholeSteps ==
    response.op \in QueryOps => ~torn

\* C9: without a SimulationState, step_simulation, start_simulation and
\* pause_simulation fail and change nothing, and get_simulation_status
\* reports None without creating a state.
C9_NotInitializedFails ==
    [][~sim.exists =>
          /\ response'.op \in {"step_simulation", "start_simulation",
                               "pause_simulation"}
                => /\ response'.outcome = "error"
                   /\ sim' = sim /\ trains' = trains /\ passengers' = passengers
          /\ response'.op = "get_simulation_status"
                => /\ response'.outcome = "none" /\ response'.body = <<>>
                   /\ sim' = sim /\ trains' = trains /\ passengers' = passengers]_vars

\* step_simulation was called with no SimulationState and raised
C9_Witness ==
    ~sim.exists /\ response.op = "step_simulation" /\ response.outcome = "error"

\* C10: a train that is completed or cancelled is not changed by any later
\* step, and no passenger is boarded onto it or deboarded from it.
C10_TerminalTrainsUntouched ==
    [][response'.op = "step_simulation" =>
          \A t \in TrainIds :
              trains[t].status \in {"completed", "cancelled"}
              => /\ trains'[t] = trains[t]
                 /\ \A p \in PassengerIds :
                        (passengers[p].boarded_train_id = t
                           \/ passengers'[p].boarded_train_id = t)
                        => passengers'[p] = passengers[p]]_vars

\* a step has run after one train completed with a passenger still on it
\* and another train was cancelled
C10_Witness ==
    /\ response.op = "step_simulation" /\ response.outcome = "ok"
    /\ \E t \in TrainIds :
          /\ trains[t].status = "completed"
          /\ trains[t].actual_arrival < sim.current_simulated_datetime
          /\ \E p \in PassengerIds : passengers[p].boarded_train_id = t
    /\ \E t \in TrainIds : trains[t].status = "cancelled"

\* C11: a scheduled train (on a route that has a waypoint 0) departs in the
\* first step whose new time reaches scheduled_departure: it becomes
\* running with actual_departure = now, current_station_id = the station of
\* waypoint[0] and current_waypoint_index = 0; while now is earlier the step
\* leaves every field of the train unchanged.
C11_ScheduledDepartsWhenDue ==
    [][\A minutes \in Durations :
          (step_simulation(minutes) /\ sim.exists)
          => LET now == sim.current_simulated_datetime + minutes
             IN  \A t \in TrainIds :
                    (trains[t].status = "scheduled" /\ routes[t] # <<>>)
                    => IF now >= trains[t].scheduled_departure
                       THEN trains'[t] =
                               [trains[t] EXCEPT
                                   !.status = "running",
                                   !.actual_departure = now,
                                   !.current_station_id = routes[t][1].station_id,
                                   !.current_waypoint_index = 0]
                       ELSE trains'[t] = trains[t]]_vars

\* the train is running or delayed and its current waypoint carries a
\* parsable planned_arrival_time
EnRoute(t) ==
    /\ trains[t].status \in {"running", "delayed"}
    /\ trains[t].current_waypoint_index < Len(routes[t])
    /\ routes[t][trains[t].current_waypoint_index + 1].planned_arrival_time.kind = "iso"

\* the current waypoint of a train that is en route
CurrentWaypoint(t) == routes[t][trains[t].current_waypoint_index + 1]

\* C12: for a running or delayed train, a step whose new time has reached
\* the current waypoint's planned_arrival_time puts the train at that
\* waypoint's station (track cleared, at_station) and, unless the waypoint is
\* the last one, moves current_waypoint_index on by exactly 1; a step whose
\* new time is earlier only sets between_stations.
C12_ArrivalAdvancesPosition ==
    [][\A minutes \in Durations :
          (step_simulation(minutes) /\ sim.exists)
          => LET now == sim.current_simulated_datetime + minutes
             IN  \A t \in TrainIds :
                    EnRoute(t)
                    => IF CurrentWaypoint(t).planned_arrival_time.t <= now
                       THEN /\ trains'[t].current_station_id
                                  = CurrentWaypoint(t).station_id
                            /\ trains'[t].current_track_id = NULL
                            /\ trains'[t].current_location_status = "at_station"
                            /\ trains[t].current_waypoint_index # Len(routes[t]) - 1
                               => trains'[t].current_waypoint_index
                                     = trains[t].current_waypoint_index + 1
                       ELSE trains'[t] =
                               [trains[t] EXCEPT !.current_location_status =
                                                     "between_stations"]]_vars

\* C13: a step makes a train completed only when the train arrives at the
\* last waypoint of its route in that step (it was running or delayed at
\* index Len - 1 and the planned_arrival_time is not after the new time);
\* actual_arrival is then the step's simulated time and the index stays.
C13_CompletedOnlyAtLastWaypoint ==
    [][\A minutes \in Durations :
          (step_simulation(minutes) /\ sim.exists)
          => LET now == sim.current_simulated_datetime + minutes
             IN  \A t \in TrainIds :
                    (trains'[t].status = "completed" /\ trains[t].status # "completed")
                    => /\ EnRoute(t)
                       /\ trains[t].current_waypoint_index = Len(routes[t]) - 1
                       /\ CurrentWaypoint(t).planned_arrival_time.t <= now
                       /\ trains'[t].actual_arrival = now
                       /\ trains'[t].current_waypoint_index
                             = trains[t].current_waypoint_index]_vars

\* a step has just completed a train at the second waypoint of its route
C13_Witness ==
    /\ response.op = "step_simulation"
    /\ \E t \in TrainIds :
          /\ trains[t].status = "completed"
          /\ trains[t].actual_arrival = sim.current_simulated_datetime
          /\ trains[t].current_waypoint_index = 1
          /\ Len(routes[t]) = 2

\* the train is running and its current waypoint has no planned_arrival_time
Untimed(t) ==
    /\ trains[t].status = "running"
    /\ trains[t].current_waypoint_index < Len(routes[t])
    /\ routes[t][trains[t].current_waypoint_index + 1].planned_arrival_time.kind = "none"

\* C14: a running train whose current waypoint has no planned_arrival_time
\* does not arrive there, whatever the duration of the step: after the step
\* it is still running at the same index and station, its location status is
\* between_stations, its passenger count is unchanged and no passenger has
\* boarded it or left it.
C14_UntimedWaypointNeverReached ==
    [][\A minutes \in Durations :
          (step_simulation(minutes) /\ sim.exists)
          => \A t \in TrainIds :
                Untimed(t)
                => /\ trains'[t] = [trains[t] EXCEPT !.current_location_status =
                                                         "between_stations"]
                   /\ \A p \in PassengerIds :
                         (passengers[p].boarded_train_id = t
                            \/ passengers'[p].boarded_train_id = t)
                         => passengers'[p] = passengers[p]]_vars

\* the train is running or delayed at a waypoint whose text does not parse:
\* its update raises
Unparsable(t) ==
    /\ trains[t].status \in {"running", "delayed"}
    /\ trains[t].current_waypoint_index < Len(routes[t])
    /\ routes[t][trains[t].current_waypoint_index + 1].planned_arrival_time.kind = "bad"

\* a step to the time now visits the current waypoint's station with train
\* t: the waypoint is due and the loop over the trains gets as far as t
Visits(t, now) ==
    /\ EnRoute(t)
    /\ CurrentWaypoint(t).planned_arrival_time.t <= now
    /\ \A u \in TrainIds : u < t => ~Unparsable(u)

\* the passengers the step takes off train t, and those it puts on it
Deboarded(t) ==
    {p \in PassengerIds : /\ passengers[p].boarded_train_id = t
                          /\ passengers[p].status = "boarded"
                          /\ passengers'[p].status = "arrived"}

Boarded(t) ==
    {p \in PassengerIds : /\ passengers[p].status = "waiting"
                          /\ passengers'[p].status = "boarded"
                          /\ passengers'[p].boarded_train_id = t}

\* the passengers waiting at the station when train t calls there: those
\* waiting before the step, less those an earlier train of the step took
WaitingAtVisit(t, station_id) ==
    {p \in PassengerIds : /\ passengers[p].status = "waiting"
                          /\ passengers[p].current_station_id = station_id
                          /\ \A u \in TrainIds : u < t => p \notin Boarded(u)}

\* C15: in one station visit deboarding comes before boarding: the seats
\* freed by the passengers who get off count for the same visit, so the
\* number boarded is min(number waiting, passenger_capacity - (count before
\* the visit - number deboarded)).
C15_DeboardBeforeBoard ==
    [][\A minutes \in Durations :
          (step_simulation(minutes) /\ sim.exists)
          => LET now == sim.current_simulated_datetime + minutes
             IN  \A t \in TrainIds :
                    Visits(t, now)
                    => Cardinality(Boarded(t))
                         = Min(Cardinality(WaitingAtVisit(t, CurrentWaypoint(t).station_id)),
                               trains[t].passenger_capacity
                                 - (trains[t].current_passenger_count
                                      - Cardinality(Deboarded(t))))]_vars

\* a full train of one seat has just set down its passenger and taken up
\* another one at the same station in the same step
C15_Witness ==
    /\ response.op = "step_simulation"
    /\ \E t \in TrainIds, a, b \in PassengerIds :
          /\ trains[t].passenger_capacity = 1
          /\ trains[t].current_passenger_count = 1
          /\ passengers[a].status = "arrived"
          /\ passengers[a].arrival_time = sim.current_simulated_datetime
          /\ passengers[b].status = "boarded"
          /\ passengers[b].boarded_train_id = t
          /\ passengers[b].boarding_time = sim.current_simulated_datetime
          /\ passengers[b].current_station_id = passengers[a].current_station_id

\* C16: at a station visit at most available_seats (capacity less the count
\* once the arriving passengers are off) waiting passengers are boarded; each
\* of them becomes boarded on this train with boarding_time = now and the
\* train's count rises by one per boarded passenger; every other passenger
\* waiting at the station keeps all fields.
C16_BoardUpToAvailableSeats ==
    [][\A minutes \in Durations :
          (step_simulation(minutes) /\ sim.exists)
          => LET now == sim.current_simulated_datetime + minutes
             IN  \A t \in TrainIds :
                    Visits(t, now)
                    => /\ Cardinality(Boarded(t))
                            <= trains[t].passenger_capacity
                                 - (trains[t].current_passenger_count
                                      - Cardinality(Deboarded(t)))
                       /\ \A p \in Boarded(t) :
                             passengers'[p] =
                                [passengers[p] EXCEPT !.status = "boarded",
                                                      !.boarded_train_id = t,
                                                      !.boarding_time = now]
                       /\ trains'[t].current_passenger_count
                             = trains[t].current_passenger_count
                                 - Cardinality(Deboarded(t))
                                 + Cardinality(Boarded(t))
                       /\ \A p \in WaitingAtVisit(t, CurrentWaypoint(t).station_id) :
                             passengers'[p].status = "waiting"
                             => passengers'[p] = passengers[p]]_vars

C18_DeboardAtDestination ==
    [][\A minutes \in Durations :
          (step_simulation(minutes) /\ sim.exists)
          => LET now == sim.current_simulated_datetime + minutes
             IN  \A t \in TrainIds :
                    Visits(t, now)
                    => LET station_id == CurrentWaypoint(t).station_id
                           due == {p \in PassengerIds :
                                     /\ passengers[p].boarded_train_id = t
                                     /\ passengers[p].status = "boarded"
                                     /\ passengers[p].destination_station_id
                                           = station_id}
                       IN  /\ \A p \in due :
                                 passengers'[p] =
                                    [passengers[p] EXCEPT
                                        !.status = "arrived",
                                        !.boarded_train_id = NULL,
                                        !.current_station_id = station_id,
                                        !.arrival_time = now]
                           /\ \A p \in PassengerIds \ due :
                                 passengers[p].boarded_train_id = t
                                 => passengers'[p] = passengers[p]
                           /\ due # {}
                              => trains'[t].current_passenger_count
                                    = trains[t].current_passenger_count
                                        - Cardinality(due)
                                        + Cardinality(Boarded(t))]_vars

\* the step to the time now finds train t due at its current waypoint
ArrivalDue(t, now) ==
    EnRoute(t) /\ CurrentWaypoint(t).planned_arrival_time.t <= now

\* C19: passengers are exchanged only at an arrival: in a step in which a
\* train does not take the arrival branch (it stays scheduled, departs, is
\* between stations, or is completed or cancelled) its passenger count is
\* unchanged and no passenger boards it or leaves it; in particular nobody
\* boards at the departure from the origin.
C19_ExchangeOnlyAtArrival ==
    [][\A minutes \in Durations :
          (step_simulation(minutes) /\ sim.exists)
          => LET now == sim.current_simulated_datetime + minutes
             IN  \A t \in TrainIds :
                    ~ArrivalDue(t, now)
                    => /\ trains'[t].current_passenger_count
                             = trains[t].current_passenger_count
                       /\ \A p \in PassengerIds :
                             (passengers[p].boarded_train_id = t
                                \/ passengers'[p].boarded_train_id = t)
                             => passengers'[p] = passengers[p]]_vars

\* a train has just departed from a station where a passenger is waiting,
\* and has nobody on board
C19_Witness ==
    /\ response.op = "step_simulation"
    /\ \E t \in TrainIds, p \in PassengerIds :
          /\ trains[t].status = "running"
          /\ trains[t].actual_departure = sim.current_simulated_datetime
          /\ trains[t].current_waypoint_index = 0
          /\ trains[t].current_passenger_count = 0
          /\ passengers[p].status = "waiting"
          /\ passengers[p].current_station_id = trains[t].current_station_id

\* the step has stored an arrival of train t: the train moved on to its next
\* waypoint or completed, or passengers got on or off
ArrivalStored(t) ==
    \/ trains'[t].current_waypoint_index = trains[t].current_waypoint_index + 1
    \/ trains'[t].status = "completed"
    \/ Boarded(t) # {}
    \/ Deboarded(t) # {}

\* C20: at every arrival delay_minutes is computed afresh as max(0, now -
\* planned_arrival_time) in minutes: it is never negative and does not
\* depend on the delay_minutes the train had before.
C20_DelayRecomputedAtArrival ==
    [][\A minutes \in Durations :
          (step_simulation(minutes) /\ sim.exists)
          => LET now == sim.current_simulated_datetime + minutes
             IN  \A t \in TrainIds :
                    (ArrivalDue(t, now) /\ ArrivalStored(t))
                    => /\ trains'[t].delay_minutes
                             = Max(0, now - CurrentWaypoint(t).planned_arrival_time.t)
                       /\ trains'[t].delay_minutes >= 0]_vars

\* a train that reached the first stop of the main route a minute late (its
\* passenger boarded then) has arrived at the second stop on time: its delay
\* is 0 again
C20_Witness ==
    /\ response.op = "step_simulation"
    /\ \A t \in TrainIds : routes[t] = MainRoute
    /\ \E t \in TrainIds, p \in PassengerIds :
          /\ trains[t].status = "completed"
          /\ trains[t].actual_arrival = sim.current_simulated_datetime
          /\ trains[t].delay_minutes = 0
          /\ passengers[p].status = "arrived"
          /\ passengers[p].boarding_time
                > MainRoute[1].planned_arrival_time.t
          /\ passengers[p].arrival_time = MainRoute[2].planned_arrival_time.t

\* C21: every init_simulation call leaves exactly one SimulationState, which
\* carries the call's start_datetime and time_scale with is_running = false
\* (whatever the state before held), and changes no train and no passenger.
C21_InitReplacesState ==
    [][\A start_datetime \in SetupTimes, time_scale \in SetupScales :
          init_simulation(start_datetime, time_scale)
          => /\ sim'.exists /\ sim'.rows = 1
             /\ sim'.current_simulated_datetime = start_datetime
             /\ sim'.time_scale = time_scale
             /\ sim'.is_running = FALSE
             /\ trains' = trains
             /\ passengers' = passengers]_vars

\* init_simulation has just replaced a state whose clock stood at minute 2
\* (a train departed then) by one at minute 0 with another time_scale
C21_Witness ==
    /\ response.op = "init_simulation"
    /\ sim.rows = 1
    /\ sim.current_simulated_datetime = 0
    /\ sim.time_scale = 1
    /\ \E t \in TrainIds : trains[t].actual_departure = 2

\* the store with is_running the other way round
Toggled == [Db EXCEPT !.sim.is_running = ~@]

\* C22: start_simulation and pause_simulation change is_running only (to
\* true, to false): the clock, the trains and the passengers stay; and
\* step_simulation leaves is_running alone and does to the clock, the trains
\* and the passengers, and returns, what it would with is_running the other
\* way round.
C22_RunningFlagOnly ==
    [][/\ (response'.op = "start_simulation" /\ response'.outcome = "ok")
            => /\ sim' = [sim EXCEPT !.is_running = TRUE]
               /\ trains' = trains /\ passengers' = passengers
       /\ (response'.op = "pause_simulation" /\ response'.outcome = "ok")
            => /\ sim' = [sim EXCEPT !.is_running = FALSE]
               /\ trains' = trains /\ passengers' = passengers
       /\ \A minutes \in Durations :
             (step_simulation(minutes) /\ sim.exists)
             => LET other == StepResult(Toggled, minutes)
                IN  /\ sim'.is_running = sim.is_running
                    /\ sim'.current_simulated_datetime
                          = other.db.sim.current_simulated_datetime
                    /\ trains' = other.db.trains
                    /\ passengers' = other.db.passengers
                    /\ response'.outcome = other.outcome]_vars

\* a step on a started simulation has just moved the clock and boarded a
\* passenger
C22_Witness ==
    /\ response.op = "step_simulation" /\ response.outcome = "ok"
    /\ sim.is_running
    /\ sim.current_simulated_datetime > 0
    /\ \E p \in PassengerIds :
          /\ passengers[p].status = "boarded"
          /\ passengers[p].boarding_time = sim.current_simulated_datetime

\* C23: a status query changes nothing in the store, and a query repeated
\* straight after itself returns what it returned the first time.
C23_QueriesReadOnly ==
    [][response'.op \in QueryOps
          => /\ sim' = sim /\ trains' = trains /\ passengers' = passengers
             /\ routes' = routes
             /\ response.op = response'.op => response' = response]_vars

\* get_trains_status has just reported a train on its way with a passenger
\* on board
C23_Witness ==
    /\ response.op = "get_trains_status"
    /\ response.body = <<trains_status(Db)>>
    /\ \E t \in TrainIds :
          /\ response.body[1][t].status = "running"
          /\ response.body[1][t].current_passenger_count = 1

\* Scenario A on the model's time axis: train X is train 1 on the route S1,
\* S2; T is its scheduled departure and the step leads from T to the planned
\* arrival at S2
ScenarioT == 1
ScenarioStep == MainRoute[2].planned_arrival_time.t - ScenarioT

\* the store of Scenario A before the step: the clock at T, X scheduled on
\* the route S1 -> S2, every passenger waiting at S1 for S2
ScenarioA ==
    /\ sim.exists
    /\ sim.current_simulated_datetime = ScenarioT
    /\ routes[1] = MainRoute
    /\ trains[1].status = "scheduled"
    /\ trains[1].scheduled_departure = ScenarioT
    /\ trains[1].current_passenger_count = 0
    /\ \A p \in PassengerIds :
          passengers[p] = NewPassenger(MainRoute[1].station_id,
                                       MainRoute[2].station_id,
                                       MainRoute[1].station_id)

\* C24: in Scenario A a single step from T to the planned arrival at S2
\* takes X from scheduled through running to having arrived at S2 (it
\* departed in this step and stands at S2, at a station), while the
\* passengers are still waiting at S1.
C24_ScenarioA ==
    [][(step_simulation(ScenarioStep) /\ ScenarioA)
          => /\ trains'[1].status \in {"running", "completed"}
             /\ trains'[1].actual_departure = sim'.current_simulated_datetime
             /\ trains'[1].current_station_id = MainRoute[2].station_id
             /\ trains'[1].current_location_status = "at_station"
             /\ passengers' = passengers]_vars

\* train t has called at the station of its current waypoint before: a
\* passenger it took up there is on board (the stations of a route differ,
\* so the passenger boarded at this very waypoint)
CalledAtCurrentWaypoint(t) ==
    /\ EnRoute(t)
    /\ \E p \in PassengerIds :
          /\ passengers[p].status = "boarded"
          /\ passengers[p].boarded_train_id = t
          /\ passengers[p].current_station_id = CurrentWaypoint(t).station_id

\* C25: step_simulation(0) leaves the clock where it is and repeats no
\* transition: a train that has departed keeps its actual_departure, a train
\* that has called at its current waypoint does not call there again (nobody
\* boards it or leaves it, its count stays), and a completed train and the
\* passengers on it are left as they are.
C25_ZeroStepRepeatsNothing ==
    [][(step_simulation(0) /\ sim.exists)
          => /\ sim'.current_simulated_datetime = sim.current_simulated_datetime
             /\ \A t \in TrainIds :
                   /\ trains[t].actual_departure # NULL
                        => trains'[t].actual_departure = trains[t].actual_departure
                   /\ CalledAtCurrentWaypoint(t)
                        => /\ Boarded(t) = {} /\ Deboarded(t) = {}
                           /\ trains'[t].current_passenger_count
                                 = trains[t].current_passenger_count
                   /\ trains[t].status = "completed"
                        => /\ trains'[t] = trains[t]
                           /\ \A p \in PassengerIds :
                                 passengers[p].boarded_train_id = t
                                 => passengers'[p] = passengers[p]]_vars

\* the passengers waiting at a station before the step
WaitingAt(station_id) ==
    {p \in PassengerIds : /\ passengers[p].status = "waiting"
                          /\ passengers[p].current_station_id = station_id}

C27_PassengerCreationChecked ==
    [][/\ \A o, d, c \in StationRefs :
             create_passenger(o, d, c)
             => IF {o, d, c} \subseteq StationIds /\ o # d
                THEN /\ response'.outcome = "ok"
                     /\ passengers' = Append(passengers, NewPassenger(o, d, c))
                ELSE /\ response'.outcome = "error"
                     /\ passengers' = passengers
       /\ response'.op \in {"create_passenger", "generate_passengers_at_station"}
             => /\ Len(passengers') >= Len(passengers)
                /\ SubSeq(passengers', 1, Len(passengers)) = passengers
                /\ \A i \in (Len(passengers) + 1)..Len(passengers') :
                       /\ passengers'[i].destination_station_id
                              # passengers'[i].origin_station_id
                       /\ passengers'[i].origin_station_id \in StationIds
                       /\ passengers'[i].destination_station_id \in StationIds
                       /\ passengers'[i].current_station_id \in StationIds
                       /\ passengers'[i].status = "waiting"]_vars

\* create_passenger has just been refused, with passengers of both
\* directions already stored
C27_Witness ==
    /\ response.op = "create_passenger" /\ response.outcome = "error"
    /\ \E i, j \in 1..Len(passengers) :
          passengers[i].origin_station_id # passengers[j].origin_station_id

\* C28: every stored track joins two different stations that exist.
C28_TracksJoinTwoStations ==
    \A i \in DOMAIN tracks :
        /\ tracks[i].start_station_id # tracks[i].end_station_id
        /\ tracks[i].start_station_id \in StationIds
        /\ tracks[i].end_station_id \in StationIds

\* C29: a train on a route with at least one waypoint has
\* 0 <= current_waypoint_index < len(waypoints) in every state that steps
\* and resets lead to, completed trains included.
C29_WaypointIndexInRange ==
    \A t \in TrainIds :
        routes[trains[t].route_id] # <<>>
        => /\ 0 <= trains[t].current_waypoint_index
           /\ trains[t].current_waypoint_index < Len(routes[trains[t].route_id])

\* a train completed at the last of two waypoints in an earlier step and
\* still points at it
C29_Witness ==
    \E t \in TrainIds :
        /\ Len(routes[trains[t].route_id]) = 2
        /\ trains[t].status = "completed"
        /\ trains[t].current_waypoint_index = 1
        /\ trains[t].actual_arrival < sim.current_simulated_datetime

\* C30: a passenger only moves forward along waiting -> boarded -> arrived:
\* whatever the operation, a waiting passenger stays as it is or becomes
\* boarded on a train, a boarded passenger stays as it is or becomes
\* arrived at its own destination, set down there by the train it boarded
\* (a step in which that train is due at a waypoint of that station), and
\* an arrived passenger never changes again.
C30_PassengerLifecycle ==
    [][\A p \in PassengerIds :
          /\ passengers[p].status = "waiting"
                => \/ passengers'[p] = passengers[p]
                   \/ /\ passengers'[p].status = "boarded"
                      /\ passengers'[p].boarded_train_id \in TrainIds
          /\ passengers[p].status = "boarded"
                => \/ passengers'[p] = passengers[p]
                   \/ /\ passengers'[p].status = "arrived"
                      /\ passengers'[p].boarded_train_id = NULL
                      /\ passengers'[p].current_station_id
                            = passengers[p].destination_station_id
                      /\ response'.op = "step_simulation"
                      /\ LET t == passengers[p].boarded_train_id
                         IN  /\ ArrivalDue(t, sim'.current_simulated_datetime)
                             /\ CurrentWaypoint(t).station_id
                                   = passengers[p].destination_station_id
          /\ passengers[p].status = "arrived"
                => passengers'[p] = passengers[p]]_vars

\* a step has just set down at its destination a passenger who boarded in
\* an earlier minute, while another passenger is still waiting
C30_Witness ==
    /\ response.op = "step_simulation"
    /\ \E p, q \in PassengerIds :
          /\ passengers[p].status = "arrived"
          /\ passengers[p].arrival_time = sim.current_simulated_datetime
          /\ passengers[p].boarding_time < passengers[p].arrival_time
          /\ passengers[p].current_station_id = passengers[p].destination_station_id
          /\ passengers[q].status = "waiting"

\* C31: get_stations_status reports at each station exactly the trains that
\* stand there: those whose current_station_id is the station and whose
\* location is not between_stations.
C31_PresentTrainsAreAtStation ==
    response.op = "get_stations_status"
    => \A s \in StationIds :
          {response.body[1][s].current_trains[i] :
              i \in 1..Len(response.body[1][s].current_trains)}
            = {t \in TrainIds :
                 /\ trains[t].current_station_id = s
                 /\ trains[t].current_location_status # "between_stations"}

\* C32: the only status changes a step makes are scheduled -> running and
\* running or delayed -> completed: no step makes a train delayed or
\* cancelled, takes it back to scheduled, or completes a scheduled train.
C32_StepStatusTransitions ==
    [][response'.op = "step_simulation"
          => \A t \in TrainIds :
                \/ trains'[t].status = trains[t].status
                \/ trains[t].status = "scheduled" /\ trains'[t].status = "running"
                \/ /\ trains[t].status \in {"running", "delayed"}
                   /\ trains'[t].status = "completed"]_vars

\* a step has just completed one train and left a train that a dispatcher
\* marked delayed as it was
C32_Witness ==
    /\ response.op = "step_simulation" /\ response.outcome = "ok"
    /\ \E t, u \in TrainIds :
          /\ trains[t].status = "delayed"
          /\ trains[u].status = "completed"
          /\ trains[u].actual_arrival = sim.current_simulated_datetime

\* the passengers on board train t according to the passengers table
OnBoard(t) ==
    {p \in PassengerIds : /\ passengers[p].status = "boarded"
                          /\ passengers[p].boarded_train_id = t}

\* C33: in every state that init_simulation, step_simulation and
\* reset_simulation lead to, each train's current_passenger_count is the
\* number of passengers boarded on it.
C33_CountMatchesPassengers ==
    \A t \in TrainIds : trains[t].current_passenger_count = Cardinality(OnBoard(t))

\* C34: a train that calls at a station with no seat free once its own
\* passengers are off (count less deboarded >= capacity, a count above the
\* capacity included) boards nobody, and its count does not rise.
C34_FullTrainBoardsNobody ==
    [][\A minutes \in Durations :
          (step_simulation(minutes) /\ sim.exists)
          => LET now == sim.current_simulated_datetime + minutes
             IN  \A t \in TrainIds :
                    (Visits(t, now)
                       /\ trains[t].current_passenger_count - Cardinality(Deboarded(t))
                             >= trains[t].passenger_capacity)
                    => /\ Boarded(t) = {}
                       /\ trains'[t].current_passenger_count
                             <= trains[t].current_passenger_count]_vars

\* C35: a completed train carries nobody: every passenger that boarded it
\* has been set down by the time it completes.
C35_CompletedTrainIsEmpty ==
    \A t \in TrainIds : trains[t].status = "completed" => OnBoard(t) = {}

\* every waypoint of the route of train t has a well-formed
\* planned_arrival_time, and the train has a scheduled_departure
WellFormed(t) ==
    /\ trains[t].scheduled_departure # NULL
    /\ routes[trains[t].route_id] # <<>>
    /\ \A i \in 1..Len(routes[trains[t].route_id]) :
          routes[trains[t].route_id][i].planned_arrival_time.kind = "iso"

\* C36: a train with a scheduled_departure whose route has a well-formed
\* planned_arrival_time at every waypoint is eventually completed, and
\* stays completed, when step_simulation is called again and again with a
\* positive duration.
C36_WellFormedTrainCompletes ==
    \A t \in TrainIds :
        WellFormed(t) => <>[](trains[t].status = "completed")

\* train t leaves the scheduled status in this step
DepartedIn(t) ==
    trains[t].status = "scheduled" /\ trains'[t].status # "scheduled"

\* train t calls at a waypoint in this step: it moves on to the next
\* waypoint, or completes its route, or has an arrival recorded
ArrivedIn(t) ==
    \/ trains'[t].current_waypoint_index # trains[t].current_waypoint_index
    \/ trains'[t].status = "completed" /\ trains[t].status # "completed"
    \/ trains'[t].actual_arrival # trains[t].actual_arrival

\* C37: a step_simulation call applies at most one transition to a train:
\* it departs or it calls at one waypoint, never both, and its
\* current_waypoint_index grows by at most 1, also when the new time is
\* past the planned_arrival_time of several later waypoints.
C37_OneTransitionPerStep ==
    [][\A minutes \in Durations :
          (step_simulation(minutes) /\ sim.exists) =>
              \A t \in TrainIds :
                  /\ trains'[t].current_waypoint_index
                        - trains[t].current_waypoint_index \in {0, 1}
                  /\ ~(DepartedIn(t) /\ ArrivedIn(t))]_vars

\* a step has moved a train on by one waypoint only, although the time is
\* already past the planned arrival at the waypoint after it
C37_Witness ==
    /\ response.op = "step_simulation"
    /\ response.outcome = "ok"
    /\ \E t \in TrainIds :
          /\ trains[t].status = "running"
          /\ trains[t].current_waypoint_index = 1
          /\ trains[t].current_location_status = "at_station"
          /\ trains[t].actual_departure = sim.current_simulated_datetime - 1
          /\ Len(routes[trains[t].route_id]) = 2
          /\ routes[trains[t].route_id][2].planned_arrival_time.kind = "iso"
          /\ routes[trains[t].route_id][2].planned_arrival_time.t
                <= sim.current_simulated_datetime

\* the columns of a train that reset_simulation assigns
ResetColumns ==
    {"status", "current_station_id", "current_track_id", "actual_departure",
     "actual_arrival", "delay_minutes", "current_waypoint_index",
     "current_location_status", "current_passenger_count", "current_cargo_kg"}

C39_DepartureAndArrivalTimes ==
    \A t \in TrainIds :
        /\ trains[t].status \in {"running", "completed"} =>
               /\ trains[t].actual_departure # NULL
               /\ trains[t].actual_departure >= trains[t].scheduled_departure
        /\ trains[t].status = "completed" =>
               /\ trains[t].actual_arrival # NULL
               /\ trains[t].actual_arrival >= trains[t].actual_departure
        /\ trains[t].status = "scheduled" =>
               /\ trains[t].actual_departure = NULL
               /\ trains[t].actual_arrival = NULL

====
